---- MODULE Spec2Model ----
(***************************************************************************)
(* Model of the Stack clip store: the AppStorage repository of             *)
(* src-tauri/src/storage.rs and the command / hotkey layer of              *)
(* src-tauri/src/lib.rs that drives it under one Mutex.                    *)
(*                                                                         *)
(* Ids (Uuid::new_v4) are modelled as naturals taken from a counter, so a  *)
(* generated id is always fresh.  Option<T> is modelled as a sequence of   *)
(* length 0 (None) or 1 (Some).  Text is a sequence of one-character       *)
(* strings.  Instants are milliseconds.                                    *)
(***************************************************************************)
EXTENDS Integers, Sequences, FiniteSets, TLC

\* ---------------------------------------------------------------- bounds
\* Number of ids Uuid::new_v4 can hand out in one run.
MaxUuid == 2
\* Longest id list a caller passes to reorder_clips / merge_clips.
MaxIdsLen == 2
\* Number of times the wall clock advances in one run.
MaxTicks == 1
\* Number of handlers (commands, hotkey events) started in one run.
MaxOps == 2
\* Longest run of add_clip calls looked at as one sequence.
MaxAdds == 2

\* ------------------------------------------------------------ data model
None == <<>>
Some(x) == <<x>>

\* lib.rs:229, the dedup window in milliseconds.
DedupWindowMs == 2000

\* Amounts by which the clock advances between two observations.
ClockSteps == {500, 2000}

\* Text a caller passes as content, or that is on the clipboard.
Texts == {<<"b">>}

\* Text that is on the clipboard when a capture reads it.
ClipboardTexts == Texts \cup {<<"a">>}

\* What read_text().unwrap_or_default() can also give: nothing, or blanks.
BlankTexts == {<<>>, <<" ">>}

\* lib.rs:34 and 210, content.trim().is_empty().
Whitespace == {" ", "\n", "\t"}
\* The test without trim(): content.is_empty().
trim_is_empty_NoTrim(text) == text = <<>>

trim_is_empty(text) == \A i \in 1..Len(text) : text[i] \in Whitespace

\* Names a caller gives to a pastebook.
Names == {"Work"}

\* window.rs: WindowInfo::default().
WindowInfo_default == [app_name |-> "unknown", window_title |-> "Unknown Window"]

\* window.rs: get_active_window_info(), the foreground window or the default.
get_active_window_info == {WindowInfo_default}

\* storage.rs: ClipObject::new(content, window_info); uuid and now are the
\* values Uuid::new_v4() and Utc::now() return.
ClipObject_new(content, window_info, uuid, t) ==
    [id |-> uuid,
     content |-> content,
     metadata |-> [timestamp |-> t,
                   source_app |-> window_info.app_name,
                   window_title |-> window_info.window_title],
     status |-> "raw"]

\* storage.rs: Pastebook::new(name).
Pastebook_new(name, uuid, t) ==
    [id |-> uuid, name |-> name, created_at |-> t, clips |-> <<>>]

\* storage.rs: impl Default for AppStorage.
AppStorage_default(uuid, t) ==
    [pastebooks |-> <<Pastebook_new("My First Pastebook", uuid, t)>>,
     active_pastebook_id |-> Some(uuid),
     api_key |-> None]

\* ------------------------------------------------------- sequence helpers
\* Index of the first element of seq with the given id, 0 if there is none
\* (Iterator::find / position).
FindId(seq, id) ==
    IF \E i \in 1..Len(seq) : seq[i].id = id
    THEN CHOOSE i \in 1..Len(seq) :
            /\ seq[i].id = id
            /\ \A j \in 1..(i - 1) : seq[j].id # id
    ELSE 0

\* Vec::retain(|c| c.id != id).
RECURSIVE RetainNot(_, _)
RetainNot(seq, id) ==
    IF seq = <<>> THEN <<>>
    ELSE (IF Head(seq).id # id THEN <<Head(seq)>> ELSE <<>>) \o RetainNot(Tail(seq), id)

\* Vec::insert(0, x).
InsertHead(seq, x) == <<x>> \o seq

\* [T]::join(sep) on a sequence of texts.
RECURSIVE Join(_, _)
Join(parts, sep) ==
    IF parts = <<>> THEN <<>>
    ELSE IF Len(parts) = 1 THEN parts[1]
    ELSE parts[1] \o sep \o Join(Tail(parts), sep)

BlankLine == <<"\n", "\n">>

\* ----------------------------------------------------------- repository
\* storage.rs: get_active_pastebook / get_active_pastebook_mut, as the index
\* of the pastebook found (0 when active_pastebook_id is None or dangling).
ActiveIndex(s) ==
    IF s.active_pastebook_id = None THEN 0
    ELSE FindId(s.pastebooks, s.active_pastebook_id[1])

\* The clips of the active pastebook (get_clips): empty without one.
get_clips(s) ==
    IF ActiveIndex(s) = 0 THEN <<>> ELSE s.pastebooks[ActiveIndex(s)].clips

\* Write a new clip sequence into the active pastebook.
WithActiveClips(s, clips) ==
    [s EXCEPT !.pastebooks[ActiveIndex(s)].clips = clips]

\* A repository operation yields the repository after it and its result.
Outcome(s, r) == [storage |-> s, ret |-> r]

\* storage.rs: create_pastebook.
create_pastebook(s, name, uuid, t) ==
    LET pastebook == Pastebook_new(name, uuid, t) IN
    Outcome([s EXCEPT !.pastebooks = Append(@, pastebook),
                      !.active_pastebook_id = Some(pastebook.id)],
            pastebook)

\* switch_pastebook setting the active id before it has looked the id up.
switch_pastebook_Unchecked(s, id) ==
    Outcome([s EXCEPT !.active_pastebook_id = Some(id)],
            \E i \in 1..Len(s.pastebooks) : s.pastebooks[i].id = id)

\* storage.rs: switch_pastebook.
switch_pastebook(s, id) ==
    IF \E i \in 1..Len(s.pastebooks) : s.pastebooks[i].id = id
    THEN Outcome([s EXCEPT !.active_pastebook_id = Some(id)], TRUE)
    ELSE Outcome(s, FALSE)

\* delete_pastebook with its guard off by one (len < 1): the sole pastebook
\* can be deleted.
delete_pastebook_GuardOffByOne(s, id) ==
    IF Len(s.pastebooks) < 1 THEN Outcome(s, FALSE)
    ELSE
        LET kept == RetainNot(s.pastebooks, id)
            active == IF s.active_pastebook_id = Some(id)
                      THEN (IF kept = <<>> THEN None ELSE Some(kept[1].id))
                      ELSE s.active_pastebook_id
        IN Outcome([s EXCEPT !.pastebooks = kept, !.active_pastebook_id = active],
                   Len(kept) < Len(s.pastebooks))

\* storage.rs: delete_pastebook.
delete_pastebook(s, id) ==
    IF Len(s.pastebooks) <= 1 THEN Outcome(s, FALSE)
    ELSE
        LET initial_len == Len(s.pastebooks)
            kept == RetainNot(s.pastebooks, id)
            active == IF s.active_pastebook_id = Some(id)
                      THEN (IF kept = <<>> THEN None ELSE Some(kept[1].id))
                      ELSE s.active_pastebook_id
        IN Outcome([s EXCEPT !.pastebooks = kept, !.active_pastebook_id = active],
                   Len(kept) < initial_len)

\* storage.rs: rename_pastebook.
rename_pastebook(s, id, new_name) ==
    LET i == FindId(s.pastebooks, id) IN
    IF i # 0 THEN Outcome([s EXCEPT !.pastebooks[i].name = new_name], TRUE)
    ELSE Outcome(s, FALSE)

\* storage.rs: list_pastebooks.
list_pastebooks(s) ==
    [i \in 1..Len(s.pastebooks) |->
        <<s.pastebooks[i].id, s.pastebooks[i].name, Len(s.pastebooks[i].clips)>>]

\* add_clip pushing the clip at the end (Vec::push) instead of the head.
add_clip_Push(s, clip) ==
    IF ActiveIndex(s) # 0
    THEN Outcome(WithActiveClips(s, Append(get_clips(s), clip)), TRUE)
    ELSE Outcome(s, FALSE)

\* storage.rs: add_clip.
add_clip(s, clip) ==
    IF ActiveIndex(s) # 0
    THEN Outcome(WithActiveClips(s, InsertHead(get_clips(s), clip)), TRUE)
    ELSE Outcome(s, FALSE)

\* delete_clip reporting a removal without comparing the lengths.
delete_clip_AlwaysTrue(s, id) ==
    IF ActiveIndex(s) # 0
    THEN Outcome(WithActiveClips(s, RetainNot(get_clips(s), id)), TRUE)
    ELSE Outcome(s, FALSE)

\* storage.rs: delete_clip.
delete_clip(s, id) ==
    IF ActiveIndex(s) # 0
    THEN LET kept == RetainNot(get_clips(s), id) IN
         Outcome(WithActiveClips(s, kept), Len(kept) < Len(get_clips(s)))
    ELSE Outcome(s, FALSE)

\* update_clip re-inserting the edited clip at the head instead of editing
\* it in place.
update_clip_MovesToHead(s, id, content) ==
    LET p == ActiveIndex(s)
        i == IF p = 0 THEN 0 ELSE FindId(s.pastebooks[p].clips, id) IN
    IF i # 0
    THEN Outcome(WithActiveClips(s,
                    InsertHead(RetainNot(get_clips(s), id),
                               [get_clips(s)[i] EXCEPT !.content = content])),
                 TRUE)
    ELSE Outcome(s, FALSE)

\* storage.rs: update_clip.
update_clip(s, id, content) ==
    LET p == ActiveIndex(s)
        i == IF p = 0 THEN 0 ELSE FindId(s.pastebooks[p].clips, id) IN
    IF i # 0
    THEN Outcome([s EXCEPT !.pastebooks[p].clips[i].content = content], TRUE)
    ELSE Outcome(s, FALSE)

\* storage.rs:242-246, the first loop of reorder_clips: for each id of the
\* list, in order, the first clip with that id (cloned) if there is one.
RECURSIVE ReorderNamed(_, _)
ReorderNamed(clips, ids) ==
    IF ids = <<>> THEN <<>>
    ELSE LET i == FindId(clips, Head(ids)) IN
         (IF i # 0 THEN <<clips[i]>> ELSE <<>>) \o ReorderNamed(clips, Tail(ids))

\* storage.rs:248-252, the second loop of reorder_clips from clip k on: a
\* clip is appended unless a clip with its id is already in new_clips.
RECURSIVE ReorderRest(_, _, _)
ReorderRest(clips, k, new_clips) ==
    IF k > Len(clips) THEN new_clips
    ELSE ReorderRest(clips, k + 1,
            IF \E j \in 1..Len(new_clips) : new_clips[j].id = clips[k].id
            THEN new_clips
            ELSE Append(new_clips, clips[k]))

\* storage.rs: reorder_clips (returns nothing).
reorder_clips(s, ids) ==
    IF ActiveIndex(s) # 0
    THEN Outcome(WithActiveClips(s,
                    ReorderRest(get_clips(s), 1, ReorderNamed(get_clips(s), ids))),
                 None)
    ELSE Outcome(s, None)

\* The clips to merge taken in pastebook order instead of list order.
MergeMatched_PastebookOrder(clips, ids) ==
    SelectSeq(clips, LAMBDA c : \E k \in 1..Len(ids) : ids[k] = c.id)

\* storage.rs:269-276, the clips merge_clips finds: for each id of the list,
\* in order, the first clip with that id if there is one.
MergeMatched(clips, ids) == ReorderNamed(clips, ids)

\* storage.rs:294-296, retain applied once per id of the list.
RECURSIVE RetainNotAny(_, _)
RetainNotAny(clips, ids) ==
    IF ids = <<>> THEN clips
    ELSE RetainNotAny(RetainNot(clips, Head(ids)), Tail(ids))

\* merge_clips without its first test (ids.len() < 2): a single id merges.
merge_clips_NoLenCheck(s, ids, uuid, t) ==
    IF ActiveIndex(s) = 0 THEN Outcome(s, None)
    ELSE
        LET clips == get_clips(s)
            matched == MergeMatched(clips, ids)
        IN
        IF matched = <<>> THEN Outcome(s, None)
        ELSE
            LET new_clip ==
                    [id |-> uuid,
                     content |-> Join([i \in 1..Len(matched) |-> matched[i].content], BlankLine),
                     metadata |-> matched[1].metadata,
                     status |-> "raw"]
            IN Outcome(WithActiveClips(s, InsertHead(RetainNotAny(clips, ids), new_clip)),
                       Some(new_clip))

\* storage.rs: merge_clips; uuid and t are what Uuid::new_v4() and
\* Utc::now() return.  The result is an Option<ClipObject>.
merge_clips(s, ids, uuid, t) ==
    IF Len(ids) < 2 THEN Outcome(s, None)
    ELSE IF ActiveIndex(s) = 0 THEN Outcome(s, None)
    ELSE
        LET clips == get_clips(s)
            matched == MergeMatched(clips, ids)
            merged_content == [i \in 1..Len(matched) |-> matched[i].content]
            first_metadata == IF matched = <<>> THEN None ELSE Some(matched[1].metadata)
        IN
        IF merged_content = <<>> THEN Outcome(s, None)
        ELSE
            LET new_clip ==
                    [id |-> uuid,
                     content |-> Join(merged_content, BlankLine),
                     metadata |-> IF first_metadata # None THEN first_metadata[1]
                                  ELSE [timestamp |-> t,
                                        source_app |-> "Stack",
                                        window_title |-> "Merged Clip"],
                     status |-> "raw"]
            IN Outcome(WithActiveClips(s, InsertHead(RetainNotAny(clips, ids), new_clip)),
                       Some(new_clip))

\* storage.rs: get_all_content.
get_all_content(s) ==
    LET clips == get_clips(s) IN
    Join([i \in 1..Len(clips) |-> clips[i].content], BlankLine)

\* clear_clips emptying every pastebook, not only the active one.
clear_clips_AllPastebooks(s) ==
    Outcome([s EXCEPT !.pastebooks =
                [p \in 1..Len(s.pastebooks) |-> [s.pastebooks[p] EXCEPT !.clips = <<>>]]],
            None)

\* storage.rs: clear_clips.
clear_clips(s) ==
    IF ActiveIndex(s) # 0 THEN Outcome(WithActiveClips(s, <<>>), None)
    ELSE Outcome(s, None)

\* ---------------------------------------------------------- persistence
\* JSON values serde writes for the Option and DateTime fields.
JNull == [json |-> "null"]
JString(x) == [json |-> "string", value |-> x]
JOption(o) == IF o = None THEN JNull ELSE JString(o[1])
\* A timestamp written with whole seconds only.
JTime_Seconds(t) == [json |-> "rfc3339", value |-> t - (t % 1000)]

JTime(t) == [json |-> "rfc3339", value |-> t]

ClipToJson(c) ==
    [id |-> JString(c.id),
     content |-> c.content,
     metadata |-> [timestamp |-> JTime(c.metadata.timestamp),
                   source_app |-> c.metadata.source_app,
                   window_title |-> c.metadata.window_title],
     status |-> c.status]

PastebookToJson(p) ==
    [id |-> JString(p.id),
     name |-> p.name,
     created_at |-> JTime(p.created_at),
     clips |-> [i \in 1..Len(p.clips) |-> ClipToJson(p.clips[i])]]

\* storage.rs:119, serde_json::to_string_pretty(self): the whole repository
\* as one document.
to_string_pretty(s) ==
    [fmt |-> "json",
     doc |-> [pastebooks |-> [i \in 1..Len(s.pastebooks) |-> PastebookToJson(s.pastebooks[i])],
              active_pastebook_id |-> JOption(s.active_pastebook_id),
              api_key |-> JOption(s.api_key)]]

OptionFromJson(j) == IF j = JNull THEN None ELSE Some(j.value)

ClipFromJson(j) ==
    [id |-> j.id.value,
     content |-> j.content,
     metadata |-> [timestamp |-> j.metadata.timestamp.value,
                   source_app |-> j.metadata.source_app,
                   window_title |-> j.metadata.window_title],
     status |-> j.status]

PastebookFromJson(j) ==
    [id |-> j.id.value,
     name |-> j.name,
     created_at |-> j.created_at.value,
     clips |-> [i \in 1..Len(j.clips) |-> ClipFromJson(j.clips[i])]]

\* storage.rs:106, serde_json::from_str::<AppStorage>: Some(repository), or
\* None when the text is no such document.  api_key is #[serde(default)].
from_str(text) ==
    IF text.fmt # "json" THEN None
    ELSE Some([pastebooks |-> [i \in 1..Len(text.doc.pastebooks) |->
                                  PastebookFromJson(text.doc.pastebooks[i])],
               active_pastebook_id |-> OptionFromJson(text.doc.active_pastebook_id),
               api_key |-> IF "api_key" \in DOMAIN text.doc
                           THEN OptionFromJson(text.doc.api_key) ELSE None])

\* The storage file: absent, present but unreadable, or present with a text.
FileMissing == [st |-> "missing"]
FileUnreadable == [st |-> "unreadable"]
FileWith(text) == [st |-> "file", text |-> text]
Garbage == [fmt |-> "garbage"]

\* load falling back to an empty repository, not to AppStorage::default(),
\* when the text does not parse.
load_EmptyOnParseError(file, uuid, t) ==
    IF file.st = "file"
    THEN (IF from_str(file.text) # None THEN from_str(file.text)[1]
          ELSE [pastebooks |-> <<>>, active_pastebook_id |-> None, api_key |-> None])
    ELSE AppStorage_default(uuid, t)

\* storage.rs: load(); uuid and t are what the default repository is built
\* from when the file gives none.
load(file, uuid, t) ==
    IF file.st = "file"
    THEN (IF from_str(file.text) # None THEN from_str(file.text)[1]
          ELSE AppStorage_default(uuid, t))
    ELSE AppStorage_default(uuid, t)

\* TRUE when load falls back to the default repository.
LoadDefaults(file) ==
    \/ file.st # "file"
    \/ from_str(file.text) = None

\* An id that no pastebook and no clip has: it stands for every stale or
\* unknown id, in a document or passed by a caller (the operations only
\* compare ids).
StaleId == 0

\* Ids found in documents written by earlier runs: pastebooks 1 and 2,
\* clips 3 and 4.  Ids generated in this run come after them.
FirstUuid == 5

DocClip(id, content) ==
    ClipToJson(ClipObject_new(content, WindowInfo_default, id, 0))

DocPastebook(id, name, clips) ==
    [id |-> JString(id), name |-> name, created_at |-> JTime(0), clips |-> clips]

\* Documents the storage file can hold when the program starts: every one
\* is a well-typed AppStorage document, which is all from_str asks for.
Documents ==
    { \* one pastebook with two clips, active
      [pastebooks |-> <<DocPastebook(1, "My First Pastebook",
                                     <<DocClip(3, <<"a">>), DocClip(4, <<"b">>)>>)>>,
       active_pastebook_id |-> JString(1), api_key |-> JNull],
      \* two pastebooks, written before api_key existed
      [pastebooks |-> <<DocPastebook(1, "My First Pastebook", <<>>),
                        DocPastebook(2, "Work", <<>>)>>,
       active_pastebook_id |-> JString(2)],
      \* active_pastebook_id null
      [pastebooks |-> <<DocPastebook(1, "My First Pastebook", <<>>)>>,
       active_pastebook_id |-> JNull, api_key |-> JNull],
      \* active_pastebook_id names no pastebook
      [pastebooks |-> <<DocPastebook(1, "My First Pastebook", <<>>),
                        DocPastebook(2, "Work", <<>>)>>,
       active_pastebook_id |-> JString(StaleId), api_key |-> JNull],
      \* no pastebook at all
      [pastebooks |-> <<>>, active_pastebook_id |-> JNull, api_key |-> JNull] }

Files ==
    {FileMissing, FileUnreadable, FileWith(Garbage)}
        \cup {FileWith([fmt |-> "json", doc |-> d]) : d \in Documents}

\* ------------------------------------------------------------------ state
VARIABLES
    storage,    \* the AppStorage behind AppState.storage
    disk,       \* the storage file pastebooks.json
    now,        \* Utc::now(), in milliseconds
    ticks,      \* how often the clock was found advanced
    nextUuid,   \* the next id Uuid::new_v4() returns
    ops,        \* how many handlers have been started
    lock,       \* AppState.storage's Mutex: None, or Some(thread holding it)
    th,         \* per thread: where its handler is, and the clip it carries
    mutated,    \* a handler has finished a mutate-and-save section
    last        \* the last finished operation: name, arguments, results

vars == <<storage, disk, now, ticks, nextUuid, ops, lock, th, mutated, last>>

\* What the command layer adds to the repository state.
appVars == <<disk, ticks, ops, lock, th, mutated>>

Threads == {1, 2}

PastebookIds(s) == {s.pastebooks[i].id : i \in 1..Len(s.pastebooks)}

ActiveClipIds(s) == {get_clips(s)[j].id : j \in 1..Len(get_clips(s))}

\* Ids a caller can pass where a pastebook id / a clip id is expected.
PastebookArgs(s) == PastebookIds(s) \cup {StaleId}
ClipArgs(s) == ActiveClipIds(s) \cup {StaleId}
IdLists(s) == UNION {[1..n -> ClipArgs(s)] : n \in 0..MaxIdsLen}

\* Uuid::new_v4() can still be called.
CanUuid == nextUuid < FirstUuid + MaxUuid

\* The record of an operation: which one, its arguments (an id, an id list,
\* a text or name), what the repository method returned, and for the
\* command layer the clip carried, the save made, the event emitted and the
\* reply to the caller.
Call(op, id, ids, arg) ==
    [op |-> op, id |-> id, ids |-> ids, arg |-> arg, ret |-> None,
     seq |-> 0, clip |-> None, save |-> "none", emit |-> None, reply |-> None]

Idle == [pc |-> "idle", kind |-> "none", clip |-> None]

\* lib.rs:173-175: the state is built from AppStorage::load().
Init ==
    /\ disk \in Files
    /\ now = 0
    /\ ticks = 0
    /\ storage = load(disk, FirstUuid, now)
    /\ nextUuid = IF LoadDefaults(disk) THEN FirstUuid + 1 ELSE FirstUuid
    /\ ops = 0
    /\ lock = None
    /\ th = [t \in Threads |-> Idle]
    /\ mutated = FALSE
    /\ last = Call("load", None, <<>>, None)

\* ------------------------------------------- repository operations (Spec)
\* One repository operation applied to the state: out is its Outcome.
Apply(out, call) ==
    /\ storage' = out.storage
    /\ last' = [call EXCEPT !.ret = out.ret]

CreatePastebook ==
    /\ CanUuid
    /\ \E name \in Names :
         Apply(create_pastebook(storage, name, nextUuid, now),
               Call("create_pastebook", None, <<>>, name))
    /\ nextUuid' = nextUuid + 1
    /\ UNCHANGED <<now, appVars>>

SwitchPastebook ==
    /\ \E id \in PastebookArgs(storage) :
         Apply(switch_pastebook(storage, id), Call("switch_pastebook", Some(id), <<>>, None))
    /\ UNCHANGED <<now, nextUuid, appVars>>

DeletePastebook ==
    /\ \E id \in PastebookArgs(storage) :
         Apply(delete_pastebook(storage, id), Call("delete_pastebook", Some(id), <<>>, None))
    /\ UNCHANGED <<now, nextUuid, appVars>>

RenamePastebook ==
    /\ \E id \in PastebookArgs(storage), name \in Names :
         Apply(rename_pastebook(storage, id, name),
               Call("rename_pastebook", Some(id), <<>>, name))
    /\ UNCHANGED <<now, nextUuid, appVars>>

\* add_clip with a clip built by ClipObject::new, as both callers do.
AddClip ==
    /\ CanUuid
    /\ \E content \in Texts, wi \in get_active_window_info :
         Apply(add_clip(storage, ClipObject_new(content, wi, nextUuid, now)),
               Call("add_clip", Some(nextUuid), <<>>, content))
    /\ nextUuid' = nextUuid + 1
    /\ UNCHANGED <<now, appVars>>

DeleteClip ==
    /\ \E id \in ClipArgs(storage) :
         Apply(delete_clip(storage, id), Call("delete_clip", Some(id), <<>>, None))
    /\ UNCHANGED <<now, nextUuid, appVars>>

UpdateClip ==
    /\ \E id \in ClipArgs(storage), content \in Texts :
         Apply(update_clip(storage, id, content),
               Call("update_clip", Some(id), <<>>, content))
    /\ UNCHANGED <<now, nextUuid, appVars>>

ReorderClips ==
    /\ \E ids \in IdLists(storage) :
         Apply(reorder_clips(storage, ids), Call("reorder_clips", None, ids, None))
    /\ UNCHANGED <<now, nextUuid, appVars>>

\* merge_clips draws an id only when it builds the merged clip.
MergeClips ==
    /\ \E ids \in IdLists(storage) :
         LET out == merge_clips(storage, ids, nextUuid, now) IN
         /\ out.ret # None => CanUuid
         /\ Apply(out, Call("merge_clips", None, ids, None))
         /\ nextUuid' = IF out.ret # None THEN nextUuid + 1 ELSE nextUuid
    /\ UNCHANGED <<now, appVars>>

ClearClips ==
    /\ Apply(clear_clips(storage), Call("clear_clips", None, <<>>, None))
    /\ UNCHANGED <<now, nextUuid, appVars>>

Next ==
    \/ CreatePastebook
    \/ SwitchPastebook
    \/ DeletePastebook
    \/ RenamePastebook
    \/ AddClip
    \/ DeleteClip
    \/ UpdateClip
    \/ ReorderClips
    \/ MergeClips
    \/ ClearClips

\* The repository under every sequence of its operations.
Spec == Init /\ [][Next]_vars

\* ------------------------------------------------ command layer (AppSpec)
\* storage.rs: save(), as the set of ways it can end: written in full, or
\* failed leaving the file as it was or cut short (fs::write truncates
\* before it writes).
save(s, file) ==
    { [ok |-> TRUE, disk |-> FileWith(to_string_pretty(s))],
      [ok |-> FALSE, disk |-> file],
      [ok |-> FALSE, disk |-> FileWith(Garbage)] }

Ok(x) == [ok |-> TRUE, value |-> x]
Err(e) == [ok |-> FALSE, error |-> e]

\* A command that answers with its result whether or not save() failed.
SaveThenOk_ErrorDropped(sv, value) == Ok(value)

\* lib.rs: storage.save()?; Ok(value): the end of every mutating command,
\* sv being the way save() ended.
SaveThenOk(sv, value) ==
    IF sv.ok THEN Ok(value) ELSE Err("Failed to write file")

\* The dedup test taking only a candidate that is not older than the head
\* for a duplicate (0 <= delta < 2000).
IsDuplicate_OnlyNewer(s, clip) ==
    /\ ActiveIndex(s) # 0
    /\ get_clips(s) # <<>>
    /\ get_clips(s)[1].content = clip.content
    /\ clip.metadata.timestamp - get_clips(s)[1].metadata.timestamp >= 0
    /\ clip.metadata.timestamp - get_clips(s)[1].metadata.timestamp < DedupWindowMs

\* lib.rs:225-235, the hotkey handler's dedup test: the head clip of the
\* active pastebook has the candidate's content and the candidate is less
\* than 2000 ms younger.
IsDuplicate(s, clip) ==
    /\ ActiveIndex(s) # 0
    /\ get_clips(s) # <<>>
    /\ get_clips(s)[1].content = clip.content
    /\ clip.metadata.timestamp - get_clips(s)[1].metadata.timestamp < DedupWindowMs

\* Time that can have passed when the clock is read again: none, or one of
\* the steps while the clock may still advance.
Elapsed == {0} \cup (IF ticks < MaxTicks THEN ClockSteps ELSE {})

CaptureKinds == {"hotkey", "capture_clip"}

\* lib.rs:29-36 and 208-212: a capture that finds no text ends at once, the
\* command with an error.
CaptureEmpty(t) ==
    /\ th[t].pc = "idle"
    /\ ops < MaxOps
    /\ \E kind \in CaptureKinds, text \in BlankTexts \cup ClipboardTexts :
         /\ trim_is_empty(text)
         /\ last' = [Call(kind, None, <<>>, text) EXCEPT
                        !.seq = ops + 1,
                        !.reply = IF kind = "capture_clip"
                                  THEN Some(Err("Clipboard is empty")) ELSE None]
    /\ ops' = ops + 1
    /\ UNCHANGED <<storage, disk, now, ticks, nextUuid, lock, th, mutated>>

\* lib.rs:38-39 and 215-218: the candidate clip is built, with its id and
\* timestamp (the clock as it then reads), before the lock is asked for.
CaptureBegin(t) ==
    /\ th[t].pc = "idle"
    /\ ops < MaxOps
    /\ CanUuid
    /\ \E kind \in CaptureKinds, text \in BlankTexts \cup ClipboardTexts,
          wi \in get_active_window_info, d \in Elapsed :
         /\ ~trim_is_empty(text)
         /\ now' = now + d
         /\ ticks' = IF d = 0 THEN ticks ELSE ticks + 1
         /\ th' = [th EXCEPT ![t] = [pc |-> "ready", kind |-> kind,
                                     clip |-> Some(ClipObject_new(text, wi, nextUuid, now'))]]
    /\ nextUuid' = nextUuid + 1
    /\ ops' = ops + 1
    /\ UNCHANGED <<storage, disk, lock, mutated, last>>

\* A command other than capture_clip is invoked: its first statement asks
\* for the lock.
CommandBegin(t) ==
    /\ th[t].pc = "idle"
    /\ ops < MaxOps
    /\ th' = [th EXCEPT ![t] = [pc |-> "ready", kind |-> "command", clip |-> None]]
    /\ ops' = ops + 1
    /\ UNCHANGED <<storage, disk, now, ticks, nextUuid, lock, mutated, last>>

\* state.storage.lock().unwrap()
Lock(t) ==
    /\ th[t].pc = "ready"
    /\ lock = None
    /\ lock' = Some(t)
    /\ th' = [th EXCEPT ![t].pc = "locked"]
    /\ UNCHANGED <<storage, disk, now, ticks, nextUuid, ops, mutated, last>>

\* The handler returns: the guard is dropped.
Return(t) ==
    /\ lock' = None
    /\ th' = [th EXCEPT ![t] = Idle]

\* lib.rs:224-241, the hotkey handler under the lock.
HotkeyBody(t) ==
    /\ th[t].pc = "locked"
    /\ th[t].kind = "hotkey"
    /\ LET clip == th[t].clip[1]
           call == [Call("hotkey", None, <<>>, clip.content) EXCEPT
                       !.seq = last.seq + 1, !.clip = Some(clip)]
       IN
       IF IsDuplicate(storage, clip)
       THEN /\ last' = call
            /\ UNCHANGED <<storage, disk, mutated>>
       ELSE LET out == add_clip(storage, clip) IN
            \E sv \in save(out.storage, disk) :
               /\ storage' = out.storage
               /\ disk' = sv.disk
               /\ mutated' = TRUE
               /\ last' = [call EXCEPT !.ret = out.ret,
                                       !.save = IF sv.ok THEN "ok" ELSE "failed",
                                       !.emit = Some(clip)]
    /\ Return(t)
    /\ UNCHANGED <<now, ticks, nextUuid, ops>>

\* lib.rs:41-45, the capture_clip command under the lock.
CaptureClipBody(t) ==
    /\ th[t].pc = "locked"
    /\ th[t].kind = "capture_clip"
    /\ LET clip == th[t].clip[1]
           out == add_clip(storage, clip)
       IN
       \E sv \in save(out.storage, disk) :
          /\ storage' = out.storage
          /\ disk' = sv.disk
          /\ mutated' = TRUE
          /\ last' = [Call("capture_clip", None, <<>>, clip.content) EXCEPT
                         !.seq = last.seq + 1,
                         !.clip = Some(clip),
                         !.ret = out.ret,
                         !.save = IF sv.ok THEN "ok" ELSE "failed",
                         !.reply = Some(SaveThenOk(sv, clip))]
    /\ Return(t)
    /\ UNCHANGED <<now, ticks, nextUuid, ops>>

\* The calls the other mutating commands make on the repository.
Commands(s) ==
    {Call("delete_clip", Some(id), <<>>, None) : id \in ClipArgs(s)}
    \cup {Call("update_clip", Some(id), <<>>, c) : id \in ClipArgs(s), c \in Texts}
    \cup {Call("reorder_clips", None, ids, None) : ids \in IdLists(s)}
    \cup {Call("merge_clips", None, ids, None) : ids \in IdLists(s)}
    \cup {Call("clear_all_clips", None, <<>>, None)}
    \cup {Call("create_pastebook", None, <<>>, n) : n \in Names}
    \cup {Call("switch_pastebook", Some(id), <<>>, None) : id \in PastebookArgs(s)}
    \cup {Call("delete_pastebook", Some(id), <<>>, None) : id \in PastebookArgs(s)}
    \cup {Call("rename_pastebook", Some(id), <<>>, n) : id \in PastebookArgs(s), n \in Names}

\* The repository method a command calls (lib.rs:49-163).
Exec(s, call, uuid, t) ==
    CASE call.op = "delete_clip" -> delete_clip(s, call.id[1])
      [] call.op = "update_clip" -> update_clip(s, call.id[1], call.arg)
      [] call.op = "reorder_clips" -> reorder_clips(s, call.ids)
      [] call.op = "merge_clips" -> merge_clips(s, call.ids, uuid, t)
      [] call.op = "clear_all_clips" -> clear_clips(s)
      [] call.op = "create_pastebook" -> create_pastebook(s, call.arg, uuid, t)
      [] call.op = "switch_pastebook" -> switch_pastebook(s, call.id[1])
      [] call.op = "delete_pastebook" -> delete_pastebook(s, call.id[1])
      [] call.op = "rename_pastebook" -> rename_pastebook(s, call.id[1], call.arg)

\* TRUE when the call draws an id from Uuid::new_v4().
DrawsUuid(s, call, out) ==
    \/ call.op = "create_pastebook"
    \/ call.op = "merge_clips" /\ out.ret # None

\* lib.rs:49-163, a mutating command under the lock: the repository method,
\* then save()?, then Ok(result).
CommandBody(t) ==
    /\ th[t].pc = "locked"
    /\ th[t].kind = "command"
    /\ \E call \in Commands(storage) :
         LET out == Exec(storage, call, nextUuid, now) IN
         /\ DrawsUuid(storage, call, out) => CanUuid
         /\ nextUuid' = IF DrawsUuid(storage, call, out) THEN nextUuid + 1 ELSE nextUuid
         /\ \E sv \in save(out.storage, disk) :
              /\ storage' = out.storage
              /\ disk' = sv.disk
              /\ last' = [call EXCEPT
                             !.seq = last.seq + 1,
                             !.ret = out.ret,
                             !.save = IF sv.ok THEN "ok" ELSE "failed",
                             !.reply = Some(SaveThenOk(sv, out.ret))]
    /\ mutated' = TRUE
    /\ Return(t)
    /\ UNCHANGED <<now, ticks, ops>>

AppNext ==
    \/ \E t \in Threads : CaptureEmpty(t)
    \/ \E t \in Threads : CaptureBegin(t)
    \/ \E t \in Threads : CommandBegin(t)
    \/ \E t \in Threads : Lock(t)
    \/ \E t \in Threads : HotkeyBody(t)
    \/ \E t \in Threads : CaptureClipBody(t)
    \/ \E t \in Threads : CommandBody(t)

\* The program: commands and hotkey events on threads sharing the lock.
AppSpec == Init /\ [][AppNext]_vars

\* ------------------------------------------- hotkey events only (HotkeySpec)
\* lib.rs:208-212, the shortcut handler finds no text.
HotkeyEmpty(t) ==
    /\ CaptureEmpty(t)
    /\ last'.op = "hotkey"

\* lib.rs:215-218, the shortcut handler builds its clip.
HotkeyBegin(t) ==
    /\ CaptureBegin(t)
    /\ th'[t].kind = "hotkey"

HotkeyNext ==
    \/ \E t \in Threads : HotkeyEmpty(t)
    \/ \E t \in Threads : HotkeyBegin(t)
    \/ \E t \in Threads : Lock(t)
    \/ \E t \in Threads : HotkeyBody(t)

\* The program when no command is ever invoked: shortcut events only, their
\* handlers running on threads that share the lock.
HotkeySpec == Init /\ [][HotkeyNext]_vars

\* ----------------------------------------------------------------- claims
\* How often x occurs in seq.
CountIn(seq, x) == Cardinality({i \in 1..Len(seq) : seq[i] = x})

\* The two sequences hold the same clips, each as often.
SameClips(a, b) ==
    /\ Len(a) = Len(b)
    /\ \A i \in 1..Len(a) : CountIn(a, a[i]) = CountIn(b, a[i])
    /\ \A j \in 1..Len(b) : CountIn(a, b[j]) = CountIn(b, b[j])

\* C1: whatever id list reorder_clips is given, the active pastebook has as
\* many clips after the call as before and exactly the same clips: none
\* lost, none duplicated.
C1_ReorderKeepsClips ==
    [][last'.op = "reorder_clips"
        => SameClips(get_clips(storage), get_clips(storage'))]_vars

\* C2: in every reachable state active_pastebook_id is set and is the id
\* of a pastebook in the sequence.
C2_ActiveResolves ==
    /\ storage.active_pastebook_id # None
    /\ \E i \in 1..Len(storage.pastebooks) :
          storage.pastebooks[i].id = storage.active_pastebook_id[1]

\* C3: from load() on, the repository holds at least one pastebook.
C3_NeverEmpty == Len(storage.pastebooks) >= 1

\* C4: no two clips of one pastebook have the same id.
C4_ClipIdsUnique ==
    \A p \in 1..Len(storage.pastebooks) :
        \A i, j \in 1..Len(storage.pastebooks[p].clips) :
            storage.pastebooks[p].clips[i].id = storage.pastebooks[p].clips[j].id => i = j

\* A hotkey or capture_clip handler has just finished its section under
\* the lock.
CaptureDone(kind) ==
    /\ last'.seq = last.seq + 1
    /\ last'.op = kind
    /\ last'.clip # None

\* C5: a hotkey capture of non-empty text is discarded (repository and file
\* untouched, no save, no event) exactly when the active pastebook's head
\* clip has the same content and the candidate is less than 2000 ms
\* younger; otherwise the candidate becomes the head, save is called and the
\* clip is emitted.
C5_HotkeyDedup ==
    [][CaptureDone("hotkey") =>
        LET clip == last'.clip[1]
            head_is_recent_copy ==
                /\ ActiveIndex(storage) # 0
                /\ get_clips(storage) # <<>>
                /\ get_clips(storage)[1].content = clip.content
                /\ clip.metadata.timestamp - get_clips(storage)[1].metadata.timestamp
                       < DedupWindowMs
        IN IF head_is_recent_copy
           THEN /\ storage' = storage
                /\ disk' = disk
                /\ last'.save = "none"
                /\ last'.emit = None
           ELSE /\ get_clips(storage') = <<clip>> \o get_clips(storage)
                /\ last'.save # "none"
                /\ last'.emit = Some(clip)]_vars

\* C6: on every capture path, of two consecutive captures of the same
\* content into the same pastebook the second is dropped when it is less
\* than 2000 ms younger than the first (one clip stored), and stored when
\* it is 2000 ms or more younger (two clips stored).
C6_DedupOnEveryPath ==
    [][(/\ last.op \in CaptureKinds
        /\ last.clip # None
        /\ get_clips(storage) # <<>>
        /\ get_clips(storage)[1] = last.clip[1]
        /\ \E kind \in CaptureKinds : CaptureDone(kind)
        /\ last'.clip[1].content = last.clip[1].content)
       =>
        LET first == last.clip[1]
            second == last'.clip[1]
            delta == second.metadata.timestamp - first.metadata.timestamp
        IN IF delta < DedupWindowMs
           THEN get_clips(storage') = get_clips(storage)
           ELSE get_clips(storage') = <<second>> \o get_clips(storage)]_vars

\* C7: whenever the lock is free and a mutating operation has finished, the
\* file holds exactly the in-memory repository.
C7_DiskEqualsMemory ==
    (lock = None /\ mutated) => disk = FileWith(to_string_pretty(storage))

\* C8: merge_clips([a, b]) with a # b both in the active pastebook returns a
\* clip whose content is content(a), a blank line, content(b); afterwards
\* neither id is in the pastebook, the new clip is the head and the
\* pastebook is shorter by exactly one.
C8_MergeTwo ==
    [][(/\ last'.op = "merge_clips"
        /\ Len(last'.ids) = 2
        /\ last'.ids[1] # last'.ids[2]
        /\ last'.ids[1] \in ActiveClipIds(storage)
        /\ last'.ids[2] \in ActiveClipIds(storage))
       =>
        LET before == get_clips(storage)
            after == get_clips(storage')
            a == before[FindId(before, last'.ids[1])]
            b == before[FindId(before, last'.ids[2])]
        IN /\ last'.ret # None
           /\ last'.ret[1].content = a.content \o BlankLine \o b.content
           /\ last'.ids[1] \notin ActiveClipIds(storage')
           /\ last'.ids[2] \notin ActiveClipIds(storage')
           /\ after # <<>>
           /\ after[1] = last'.ret[1]
           /\ Len(after) = Len(before) - 1]_vars

\* C9: merge_clips returns nothing and changes nothing when the id list has
\* fewer than 2 entries, and when no id of the list is the id of a clip of
\* the active pastebook.
C9_MergeNothing ==
    \A ids \in IdLists(storage) :
        (\/ Len(ids) < 2
         \/ \A k \in 1..Len(ids) : ids[k] \notin ActiveClipIds(storage))
        => merge_clips(storage, ids, nextUuid, now) = Outcome(storage, None)

\* C9 witness: merge_clips was called with the single id of a clip that is
\* in the active pastebook, and returned nothing.
C9_Witness ==
    /\ last.op = "merge_clips"
    /\ Len(last.ids) = 1
    /\ last.ids[1] \in ActiveClipIds(storage)
    /\ last.ret = None

\* C10: with exactly one pastebook, delete_pastebook returns false and
\* changes nothing: the pastebook stays, and stays active.
C10_LastPastebookStays ==
    Len(storage.pastebooks) = 1 =>
        \A id \in PastebookArgs(storage) :
            delete_pastebook(storage, id) = Outcome(storage, FALSE)

\* C10 witness: delete_pastebook was called on the sole pastebook, which is
\* the active one, and returned false.
C10_Witness ==
    /\ last.op = "delete_pastebook"
    /\ Len(storage.pastebooks) = 1
    /\ last.id = Some(storage.pastebooks[1].id)
    /\ storage.active_pastebook_id = last.id
    /\ last.ret = FALSE

\* seq without its element at position i.
RemoveAt(seq, i) ==
    [k \in 1..(Len(seq) - 1) |-> IF k < i THEN seq[k] ELSE seq[k + 1]]

\* C11: with two or more pastebooks, delete_pastebook(id) for an existing id
\* removes exactly that pastebook and returns true, the active id becoming
\* the id of the first remaining pastebook if the deleted one was active and
\* staying as it was otherwise; for an id no pastebook has it returns false
\* and changes nothing.
C11_DeletePastebook ==
    [][(last'.op = "delete_pastebook" /\ Len(storage.pastebooks) >= 2) =>
        LET id == last'.id[1]
            before == storage.pastebooks
            after == storage'.pastebooks
        IN IF id \in PastebookIds(storage)
           THEN /\ last'.ret = TRUE
                /\ after = RemoveAt(before, FindId(before, id))
                /\ storage'.active_pastebook_id =
                      IF storage.active_pastebook_id = Some(id)
                      THEN Some(after[1].id)
                      ELSE storage.active_pastebook_id
           ELSE /\ last'.ret = FALSE
                /\ storage' = storage]_vars

\* add_clip called once per clip of the sequence, in order: the repository
\* after the calls and how many of them returned true.
RECURSIVE AddAll(_, _)
AddAll(s, clips) ==
    IF clips = <<>> THEN [storage |-> s, added |-> 0]
    ELSE LET out == add_clip(s, Head(clips))
             rest == AddAll(out.storage, Tail(clips))
         IN [storage |-> rest.storage,
             added |-> rest.added + (IF out.ret THEN 1 ELSE 0)]

Reverse(seq) == [k \in 1..Len(seq) |-> seq[Len(seq) + 1 - k]]

\* Runs of new clips, with fresh ids, a caller can add in the current state.
ClipRuns ==
    UNION {{[k \in 1..n |-> ClipObject_new(texts[k], WindowInfo_default,
                                            nextUuid + k - 1, now)] :
                texts \in [1..n -> Texts \cup {<<"a">>}]} : n \in 0..MaxAdds}

\* C12: after any run of add_clip calls the active pastebook is longer by
\* the number of calls that returned true, and on a repository with an
\* active pastebook every call returns true and the clips added are at the
\* front, the most recent first, with the earlier clips behind them in their
\* old order.
C12_AddClipLifo ==
    \A clips \in ClipRuns :
        LET r == AddAll(storage, clips) IN
        /\ Len(get_clips(r.storage)) = Len(get_clips(storage)) + r.added
        /\ ActiveIndex(storage) # 0 =>
             /\ r.added = Len(clips)
             /\ get_clips(r.storage) = Reverse(clips) \o get_clips(storage)

\* C12 witness: add_clip has returned true on a pastebook that already held
\* clips, and the clip it added is at index 0.
C12_Witness ==
    /\ last.op = "add_clip"
    /\ last.ret = TRUE
    /\ Len(get_clips(storage)) >= 3
    /\ get_clips(storage)[1].id = last.id[1]

\* C13: delete_clip(id) returns true exactly when the active pastebook has
\* a clip with that id; then no clip with that id is left and the other
\* clips are all there in their old order, nothing else changing; when no
\* clip has the id it returns false and the repository is unchanged.
C13_DeleteClip ==
    \A id \in ClipArgs(storage) :
        LET out == delete_clip(storage, id)
            before == get_clips(storage)
            after == get_clips(out.storage)
        IN /\ (out.ret = TRUE) <=> (id \in ActiveClipIds(storage))
           /\ out.ret \in BOOLEAN
           /\ IF id \in ActiveClipIds(storage)
              THEN /\ id \notin ActiveClipIds(out.storage)
                   /\ after = SelectSeq(before, LAMBDA c : c.id # id)
                   /\ out.storage =
                        [storage EXCEPT !.pastebooks[ActiveIndex(storage)].clips = after]
              ELSE out.storage = storage

\* C13 witness: delete_clip has removed a clip (it returned true and the id
\* is gone) and other clips remain.
C13_Witness ==
    /\ last.op = "delete_clip"
    /\ last.ret = TRUE
    /\ last.id[1] \notin ActiveClipIds(storage)
    /\ get_clips(storage) # <<>>

\* Contents a caller can give update_clip: one some clips have, one none has.
NewContents == Texts \cup {<<"c">>}

\* C14: update_clip(id, new_content) returns true exactly when the active
\* pastebook has a clip with that id; then one clip with that id has the new
\* content and its old id, metadata, status and position, and every other
\* clip and pastebook is as before; when no clip has the id it returns false
\* and nothing changes.
C14_UpdateClip ==
    \A id \in ClipArgs(storage), content \in NewContents :
        LET out == update_clip(storage, id, content)
            before == get_clips(storage)
            after == get_clips(out.storage)
        IN /\ out.ret \in BOOLEAN
           /\ (out.ret = TRUE) <=> (id \in ActiveClipIds(storage))
           /\ IF id \in ActiveClipIds(storage)
              THEN /\ Len(after) = Len(before)
                   /\ \E i \in 1..Len(before) :
                        /\ before[i].id = id
                        /\ after[i].content = content
                        /\ after[i].id = before[i].id
                        /\ after[i].metadata = before[i].metadata
                        /\ after[i].status = before[i].status
                        /\ \A j \in 1..Len(before) : j # i => after[j] = before[j]
                   /\ out.storage =
                        [storage EXCEPT !.pastebooks[ActiveIndex(storage)].clips = after]
              ELSE out.storage = storage

\* C14 witness: update_clip has returned true for a clip that is not the
\* head of its pastebook, and that clip now has the content given.
C14_Witness ==
    /\ last.op = "update_clip"
    /\ last.ret = TRUE
    /\ \E i \in 2..Len(get_clips(storage)) :
          /\ get_clips(storage)[i].id = last.id[1]
          /\ get_clips(storage)[i].content = last.arg
          /\ get_clips(storage)[1].id # last.id[1]

\* For each id of the list, in the order of the list, the clips with that id.
RECURSIVE NamedBy(_, _)
NamedBy(clips, ids) ==
    IF ids = <<>> THEN <<>>
    ELSE SelectSeq(clips, LAMBDA c : c.id = Head(ids)) \o NamedBy(clips, Tail(ids))

\* The clips whose id is not in the list, in their order.
NotNamedBy(clips, ids) ==
    SelectSeq(clips, LAMBDA c : \A k \in 1..Len(ids) : ids[k] # c.id)

\* C15: reorder_clips(ordered_ids) leaves the clips that ordered_ids names
\* and that exist, in the order ordered_ids gives them, followed by every
\* clip ordered_ids does not mention, in its prior relative order; ids that
\* match no clip have no effect.
C15_ReorderResult ==
    [][(last'.op = "reorder_clips" /\ ActiveIndex(storage) # 0) =>
        get_clips(storage') =
            NamedBy(get_clips(storage), last'.ids)
                \o NotNamedBy(get_clips(storage), last'.ids)]_vars

\* C16: load() always returns a repository, and when the storage file is
\* missing, cannot be read or cannot be parsed, it returns one with exactly
\* one pastebook, which has no clips and whose id is the active id.
C16_LoadDefault ==
    \A file \in Files \cup {disk} :
        LET r == load(file, nextUuid, now) IN
        /\ DOMAIN r = {"pastebooks", "active_pastebook_id", "api_key"}
        /\ (file.st = "missing" \/ file.st = "unreadable" \/ from_str(file.text) = None) =>
             /\ Len(r.pastebooks) = 1
             /\ r.pastebooks[1].clips = <<>>
             /\ r.active_pastebook_id # None
             /\ r.active_pastebook_id = Some(r.pastebooks[1].id)

\* C16 witness: the program was started on a storage file that does not
\* parse and holds the default repository load() gave it.
C16_Witness ==
    /\ last.op = "load"
    /\ disk = FileWith(Garbage)
    /\ Len(storage.pastebooks) = 1
    /\ storage.pastebooks[1].clips = <<>>
    /\ storage.active_pastebook_id = Some(storage.pastebooks[1].id)

\* C17: create_pastebook(name) appends a new pastebook without clips at the
\* end of the sequence, makes it the active one, returns it and leaves the
\* pastebooks there were unchanged; switch_pastebook(id) sets the active id
\* and returns true when a pastebook has that id, and otherwise returns
\* false and changes nothing.
C17_CreateAndSwitch ==
    /\ \A name \in Names :
          LET out == create_pastebook(storage, name, nextUuid, now)
              n == Len(storage.pastebooks)
              after == out.storage.pastebooks
          IN /\ Len(after) = n + 1
             /\ SubSeq(after, 1, n) = storage.pastebooks
             /\ after[n + 1].name = name
             /\ after[n + 1].clips = <<>>
             /\ after[n + 1].id \notin PastebookIds(storage)
             /\ out.storage.active_pastebook_id = Some(after[n + 1].id)
             /\ out.storage.api_key = storage.api_key
             /\ out.ret = after[n + 1]
    /\ \A id \in PastebookArgs(storage) :
          LET out == switch_pastebook(storage, id) IN
          IF id \in PastebookIds(storage)
          THEN /\ out.ret = TRUE
               /\ out.storage = [storage EXCEPT !.active_pastebook_id = Some(id)]
          ELSE /\ out.ret = FALSE
               /\ out.storage = storage

\* C17 witness: a pastebook created in this run is the last of the
\* sequence, and switch_pastebook has since made an older one active.
C17_Witness ==
    /\ last.op = "switch_pastebook"
    /\ last.ret = TRUE
    /\ Len(storage.pastebooks) >= 2
    /\ storage.pastebooks[Len(storage.pastebooks)].id >= FirstUuid
    /\ storage.pastebooks[Len(storage.pastebooks)].clips = <<>>
    /\ storage.active_pastebook_id = last.id
    /\ last.id[1] < FirstUuid

\* C18: a capture, by hotkey or by the capture_clip command, that finds
\* empty or whitespace-only text leaves the repository and the storage file
\* as they were, saves nothing and emits no clip, and capture_clip answers
\* with the error "Clipboard is empty".
C18_EmptyRejected ==
    [][(/\ last'.seq # last.seq
        /\ last'.op \in CaptureKinds
        /\ \A i \in 1..Len(last'.arg) : last'.arg[i] \in Whitespace)
       =>
        /\ storage' = storage
        /\ disk' = disk
        /\ last'.clip = None
        /\ last'.save = "none"
        /\ last'.emit = None
        /\ last'.op = "capture_clip" => last'.reply = Some(Err("Clipboard is empty"))]_vars

\* C18 witness: capture_clip has found whitespace on the clipboard and
\* answered with the error, the pastebook holding clips it left alone.
C18_Witness ==
    /\ last.op = "capture_clip"
    /\ last.arg = <<" ">>
    /\ last.reply = Some(Err("Clipboard is empty"))
    /\ get_clips(storage) # <<>>

\* What save() leaves in the storage file when it succeeds.
Saved(s) == FileWith(to_string_pretty(s))

C20_SaveErrors ==
    /\ last.save = "failed" =>
          IF last.op = "hotkey"
          THEN /\ last.emit = last.clip
               /\ last.emit # None
               /\ last.reply = None
          ELSE /\ last.reply = Some(Err("Failed to write file"))
               /\ last.emit = None
    /\ (last.save = "ok" /\ last.op # "hotkey") =>
          /\ last.reply # None
          /\ last.reply[1].ok = TRUE
          /\ last.reply[1].value = (IF last.op = "capture_clip" THEN last.clip[1] ELSE last.ret)

\* C20 witness: merge_clips has merged two clips in memory, save has
\* failed, and the command has answered with the error.
C20_Witness ==
    /\ last.op = "merge_clips"
    /\ last.ret # None
    /\ last.save = "failed"
    /\ last.reply = Some(Err("Failed to write file"))

\* Every id in the repository: of a pastebook, or of a clip in any of them.
AllIds(s) ==
    PastebookIds(s) \cup
    UNION {{s.pastebooks[p].clips[i].id : i \in 1..Len(s.pastebooks[p].clips)} :
              p \in 1..Len(s.pastebooks)}

C22_ConcurrentHotkeys ==
    [][(/\ last.op = "hotkey"
        /\ last.clip # None
        /\ CaptureDone("hotkey")
        /\ last'.clip[1].content = last.clip[1].content
        /\ LET delta == last'.clip[1].metadata.timestamp
                            - last.clip[1].metadata.timestamp
           IN delta < DedupWindowMs /\ 0 - delta < DedupWindowMs)
       =>
        ~(/\ last.clip[1].id \in ActiveClipIds(storage')
          /\ last'.clip[1].id \in ActiveClipIds(storage'))]_vars

\* C22 witness: a hotkey capture has been discarded against a head clip of
\* the same content that was built after it: the two handlers ran
\* concurrently and the later one got the lock first.
C22_Witness ==
    /\ last.op = "hotkey"
    /\ last.clip # None
    /\ last.emit = None
    /\ get_clips(storage) # <<>>
    /\ get_clips(storage)[1].content = last.clip[1].content
    /\ get_clips(storage)[1].id > last.clip[1].id
    /\ get_clips(storage)[1].metadata.timestamp > last.clip[1].metadata.timestamp

\* C23: when hotkey captures are the only operations, the clips of the
\* active pastebook are in every reachable state ordered newest first:
\* their timestamps never increase from index 0 to the end.
C23_NewestFirst ==
    \A i \in 1..(Len(get_clips(storage)) - 1) :
        get_clips(storage)[i].metadata.timestamp
            >= get_clips(storage)[i + 1].metadata.timestamp

\* The repositories the clip operations can leave when called in the
\* current state, over the arguments a caller can pass.
ClipOpResults ==
    {add_clip(storage, ClipObject_new(text, WindowInfo_default, nextUuid, now)).storage :
        text \in ClipboardTexts}
    \cup {delete_clip(storage, id).storage : id \in ClipArgs(storage)}
    \cup {update_clip(storage, id, content).storage :
              id \in ClipArgs(storage), content \in NewContents}
    \cup {reorder_clips(storage, ids).storage : ids \in IdLists(storage)}
    \cup {merge_clips(storage, ids, nextUuid, now).storage : ids \in IdLists(storage)}
    \cup {clear_clips(storage).storage}

\* C24: a clip operation changes nothing but the clip sequence of the
\* active pastebook: the number and order of the pastebooks, the id, name
\* and creation time of each, the clips of every pastebook that is not the
\* active one, active_pastebook_id and api_key are as before; without an
\* active pastebook nothing changes at all.  (get_clips, get_all_content
\* and list_pastebooks take &self and are operators of the state here.)
C24_ClipOpsFrame ==
    \A after \in ClipOpResults :
        /\ Len(after.pastebooks) = Len(storage.pastebooks)
        /\ after.active_pastebook_id = storage.active_pastebook_id
        /\ after.api_key = storage.api_key
        /\ \A p \in 1..Len(storage.pastebooks) :
              /\ after.pastebooks[p].id = storage.pastebooks[p].id
              /\ after.pastebooks[p].name = storage.pastebooks[p].name
              /\ after.pastebooks[p].created_at = storage.pastebooks[p].created_at
              /\ p # ActiveIndex(storage) =>
                    after.pastebooks[p].clips = storage.pastebooks[p].clips

\* C24 witness: clear_clips has emptied the active pastebook while another
\* pastebook still holds its clips.
C24_Witness ==
    /\ last.op = "clear_clips"
    /\ ActiveIndex(storage) # 0
    /\ get_clips(storage) = <<>>
    /\ \E p \in 1..Len(storage.pastebooks) :
          /\ p # ActiveIndex(storage)
          /\ storage.pastebooks[p].clips # <<>>

\* C25: when a capture has succeeded for its caller (capture_clip answered
\* Ok(clip), or the hotkey handler emitted the clip), the clip is at index 0
\* of the active pastebook when the handler releases the lock, whatever
\* repository load() started the program with.
C25_CaptureStored ==
    (/\ last.op \in CaptureKinds
     /\ last.clip # None
     /\ \/ last.emit # None
        \/ last.reply # None /\ last.reply[1].ok)
    =>
        /\ get_clips(storage) # <<>>
        /\ get_clips(storage)[1] = last.clip[1]

====
